---------------------------- MODULE Spec2Model ----------------------------
(***************************************************************************)
(* A model of specutils' spectral-data container (Spectrum1D,              *)
(* src/specutils/spectra/spectrum1d.py) and of its pixel <-> dispersion    *)
(* transforms (Spectrum1DLookupWCS and Spectrum1DLinearWCS,                *)
(* src/specutils/wcs/specwcs.py).                                          *)
(*                                                                         *)
(* Numbers are exact rationals [n, d] (d = 0 encodes nan and +-inf), so    *)
(* floating-point rounding is not modelled.  Python values are tagged      *)
(* records: [t |-> "None"], [t |-> "num", v |-> rational],                 *)
(* [t |-> "Q", v |-> rational, unit |-> unit], [t |-> "str", s |-> string].*)
(* Units are [dim |-> <<length, time, mass, pixel>>, scale |-> power of    *)
(* ten]; two units are equivalent when their dimensions agree.             *)
(***************************************************************************)
EXTENDS Integers, Sequences, FiniteSets, TLC

\* ------------------------------------------------------------------ bounds
\* Longest lookup table, and the largest pixel index fed to a transform.
MaxLen == 3
\* Lookup-table and reference values are drawn from 1..MaxVal.
MaxVal == 3

\* --------------------------------------------------------------- rationals
Abs(x) == IF x < 0 THEN -x ELSE x

RECURSIVE GCD(_, _)
GCD(a, b) == IF b = 0 THEN a ELSE GCD(b, a % b)

Norm(n, d) ==
    IF d = 0 THEN [n |-> IF n > 0 THEN 1 ELSE IF n < 0 THEN -1 ELSE 0, d |-> 0]
    ELSE LET g == GCD(Abs(n), Abs(d))
             s == IF d < 0 THEN -1 ELSE 1
         IN  [n |-> (s * n) \div g, d |-> (s * d) \div g]

R(i) == [n |-> i, d |-> 1]
NaN == [n |-> 0, d |-> 0]
Inf == [n |-> 1, d |-> 0]
IsNaN(a) == a.d = 0 /\ a.n = 0
IsFinite(a) == a.d # 0

RNeg(a) == [n |-> -a.n, d |-> a.d]
RAdd(a, b) ==
    IF IsNaN(a) \/ IsNaN(b) THEN NaN
    ELSE IF a.d = 0 /\ b.d = 0 THEN (IF a.n = b.n THEN a ELSE NaN)
    ELSE IF a.d = 0 THEN a
    ELSE IF b.d = 0 THEN b
    ELSE Norm(a.n * b.d + b.n * a.d, a.d * b.d)
RSub(a, b) == RAdd(a, RNeg(b))
RMul(a, b) ==
    IF IsNaN(a) \/ IsNaN(b) THEN NaN
    ELSE Norm(a.n * b.n, a.d * b.d)
RDiv(a, b) ==
    IF IsNaN(a) \/ IsNaN(b) THEN NaN
    ELSE IF b.d = 0 THEN (IF a.d = 0 THEN NaN ELSE R(0))
    ELSE IF b.n < 0 THEN Norm(-(a.n * b.d), -(a.d * b.n))
    ELSE Norm(a.n * b.d, a.d * b.n)
\* Comparisons of finite rationals.
RLt(a, b) == a.n * b.d < b.n * a.d
RGe(a, b) == ~RLt(a, b)
RGt(a, b) == RLt(b, a)

RECURSIVE Pow10(_)
Pow10(k) == IF k = 0 THEN 1 ELSE 10 * Pow10(k - 1)

\* ------------------------------------------------------------------- units
u_one   == [dim |-> <<0, 0, 0, 0>>,  scale |-> 0]
u_pix   == [dim |-> <<0, 0, 0, 1>>,  scale |-> 0]
u_m     == [dim |-> <<1, 0, 0, 0>>,  scale |-> 0]
u_km    == [dim |-> <<1, 0, 0, 0>>,  scale |-> 3]
u_AA    == [dim |-> <<1, 0, 0, 0>>,  scale |-> -10]
u_Hz    == [dim |-> <<0, -1, 0, 0>>, scale |-> 0]
u_m_s   == [dim |-> <<1, -1, 0, 0>>, scale |-> 0]
u_km_s  == [dim |-> <<1, -1, 0, 0>>, scale |-> 3]
u_erg   == [dim |-> <<2, -2, 1, 0>>, scale |-> -7]
u_kg    == [dim |-> <<0, 0, 1, 0>>,  scale |-> 0]
u_Jy    == [dim |-> <<0, -2, 1, 0>>, scale |-> -26]

UnitMul(a, b) == [dim |-> [i \in 1..4 |-> a.dim[i] + b.dim[i]], scale |-> a.scale + b.scale]
UnitDiv(a, b) == [dim |-> [i \in 1..4 |-> a.dim[i] - b.dim[i]], scale |-> a.scale - b.scale]
is_equivalent(a, b) == a.dim = b.dim

\* The strings astropy's unit parser knows here, and what each denotes.
UnitNames == {"", "pix", "m", "km", "Angstrom", "Hz", "m / s", "km / s", "erg", "kg", "Jy"}
UnitOfName(s) ==
    CASE s = ""         -> u_one
      [] s = "pix"      -> u_pix
      [] s = "m"        -> u_m
      [] s = "km"       -> u_km
      [] s = "Angstrom" -> u_AA
      [] s = "Hz"       -> u_Hz
      [] s = "m / s"    -> u_m_s
      [] s = "km / s"   -> u_km_s
      [] s = "erg"      -> u_erg
      [] s = "kg"       -> u_kg
      [] s = "Jy"       -> u_Jy

\* unit.to_string(): the name of a unit.
to_string(unit) == CHOOSE s \in UnitNames : UnitOfName(s) = unit

\* u.Unit(x): a Unit is returned as it is, a string is parsed (ValueError when
\* it names no unit), None is a TypeError.
Unit(x) ==
    CASE x.t = "Unit" -> [exc |-> "None", unit |-> x.unit]
      [] x.t = "str"  -> IF x.s \in UnitNames
                         THEN [exc |-> "None", unit |-> UnitOfName(x.s)]
                         ELSE [exc |-> "ValueError", unit |-> u_one]
      [] OTHER        -> [exc |-> "TypeError", unit |-> u_one]

None == [t |-> "None"]
Num(r) == [t |-> "num", v |-> r]
Q(r, unit) == [t |-> "Q", v |-> r, unit |-> unit]
Str(s) == [t |-> "str", s |-> s]
UnitObj(unit) == [t |-> "Unit", unit |-> unit]

valid_spectral_units == <<u_pix, u_km_s, u_m, u_Hz, u_erg>>

\* check_valid_unit(unit): TRUE when it returns, FALSE when it raises ValueError.
check_valid_unit(unit) ==
    \E i \in 1..Len(valid_spectral_units) : is_equivalent(unit, valid_spectral_units[i])


\* ------------------------------------------------------------ numpy.interp
\* arr[i] with numpy's zero-based index.
At(arr, i) == arr[i + 1]

\* for (i = 1; i < len && key >= arr[i]; ++i);
RECURSIVE LinearSearch(_, _, _, _)
LinearSearch(key, arr, len, i) ==
    IF i < len /\ RGe(key, At(arr, i)) THEN LinearSearch(key, arr, len, i + 1) ELSE i

\* while (imin < imax) { imid = imin + ((imax - imin) >> 1); ... }
RECURSIVE Bisect(_, _, _, _)
Bisect(key, arr, imin, imax) ==
    IF imin < imax
    THEN LET imid == imin + ((imax - imin) \div 2)
         IN  IF RGe(key, At(arr, imid))
             THEN Bisect(key, arr, imid + 1, imax)
             ELSE Bisect(key, arr, imin, imid)
    ELSE imin - 1

LIKELY_IN_CACHE_SIZE == 8

\* numpy's binary_search_with_guess: the index j with arr[j] <= key < arr[j+1]
\* when arr is increasing; -1 and len outside.  It never checks that arr is
\* increasing.
binary_search_with_guess(key, arr, len, guess0) ==
    IF RGt(key, At(arr, len - 1)) THEN len
    ELSE IF RLt(key, At(arr, 0)) THEN -1
    ELSE IF len <= 4 THEN LinearSearch(key, arr, len, 1) - 1
    ELSE LET g1 == IF guess0 > len - 3 THEN len - 3 ELSE guess0
             guess == IF g1 < 1 THEN 1 ELSE g1
         IN  IF RLt(key, At(arr, guess))
             THEN IF RLt(key, At(arr, guess - 1))
                  THEN Bisect(key, arr,
                              IF guess > LIKELY_IN_CACHE_SIZE
                                 /\ RGe(key, At(arr, guess - LIKELY_IN_CACHE_SIZE))
                              THEN guess - LIKELY_IN_CACHE_SIZE ELSE 0,
                              guess - 1)
                  ELSE guess - 1
             ELSE IF RLt(key, At(arr, guess + 1)) THEN guess
             ELSE IF RLt(key, At(arr, guess + 2)) THEN guess + 1
             ELSE Bisect(key, arr, guess + 2,
                         IF guess < len - LIKELY_IN_CACHE_SIZE - 1
                            /\ RLt(key, At(arr, guess + LIKELY_IN_CACHE_SIZE))
                         THEN guess + LIKELY_IN_CACHE_SIZE ELSE len)

\* np.interp(x, xp, fp, left, right) for one x: [exc, v].
interp(x, xp, fp, left, right) ==
    LET lenxp == Len(xp) IN
    IF lenxp = 0 THEN [exc |-> "ValueError", v |-> NaN]
    ELSE IF IsNaN(x) THEN [exc |-> "None", v |-> x]
    ELSE IF lenxp = 1
    THEN [exc |-> "None",
          v |-> IF RLt(x, xp[1]) THEN left ELSE IF RGt(x, xp[1]) THEN right ELSE fp[1]]
    ELSE LET j == binary_search_with_guess(x, xp, lenxp, 0)
         IN  [exc |-> "None",
              v |-> IF j = -1 THEN left
                    ELSE IF j = lenxp THEN right
                    ELSE IF j = lenxp - 1 THEN At(fp, j)
                    ELSE IF At(xp, j) = x THEN At(fp, j)
                    ELSE LET slope == RDiv(RSub(At(fp, j + 1), At(fp, j)),
                                           RSub(At(xp, j + 1), At(xp, j)))
                         IN  RAdd(RMul(slope, RSub(x, At(xp, j))), At(fp, j))]

\* np.arange(n)
arange(n) == [i \in 1..n |-> R(i - 1)]

\* The length of values itself, duplicates counted.
UniqueCount_NotUnique(values) == Len(values)

\* len(np.unique(values))
UniqueCount(values) == Cardinality({values[i] : i \in 1..Len(values)})

\* ------------------------------------------------------ Spectrum1DLookupWCS
NoWCS == [cls |-> "None"]

\* Spectrum1DLookupWCS(lookup_table, unit, lookup_table_interpolation_kind).
\* lookup_table is [value, ndim, unit]: unit is None for a bare array.
\* Returns [exc, self].
Spectrum1DLookupWCS__init__(lookup_table, unit, kind) ==
    IF unit.t = "None" /\ lookup_table.unit.t = "None"
    THEN [exc |-> "TypeError", self |-> NoWCS]
    ELSE LET parsed == IF unit.t = "None" THEN [exc |-> "None", unit |-> u_one] ELSE Unit(unit)
         IN
         IF unit.t # "None" /\ parsed.exc # "None"
         THEN [exc |-> "ValueError", self |-> NoWCS]
         ELSE IF unit.t # "None" /\ ~check_valid_unit(parsed.unit)
         THEN [exc |-> "ValueError", self |-> NoWCS]
         ELSE LET \* lookup_table *= unit
                  table_unit == IF unit.t = "None" THEN lookup_table.unit.unit
                                ELSE IF lookup_table.unit.t = "None" THEN parsed.unit
                                ELSE UnitMul(lookup_table.unit.unit, parsed.unit)
              IN
              IF lookup_table.ndim # 1
              THEN [exc |-> "AssertionError", self |-> NoWCS]
              ELSE IF Len(lookup_table.value) # UniqueCount(lookup_table.value)
              THEN [exc |-> "Spectrum1DWCSError", self |-> NoWCS]
              ELSE [exc |-> "None",
                    self |-> [cls |-> "Lookup",
                              lookup_table_parameter |-> lookup_table.value,
                              unit |-> table_unit,
                              lookup_table_interpolation_kind |-> kind,
                              pixel_index |-> arange(Len(lookup_table.value))]]

\* Spectrum1DLookupWCS.__call__(pixel_indices): [exc, v], v a quantity.
Spectrum1DLookupWCS__call__(self, pixel_indices) ==
    IF self.lookup_table_interpolation_kind = "linear"
    THEN LET r == interp(pixel_indices, self.pixel_index, self.lookup_table_parameter, NaN, NaN)
         IN  [exc |-> r.exc, v |-> Q(r.v, self.unit)]
    ELSE [exc |-> "NotImplementedError", v |-> None]

\* Spectrum1DLookupWCS.invert(dispersion_values): [exc, v], v a number.
Spectrum1DLookupWCS_invert(self, dispersion_values) ==
    IF self.lookup_table_interpolation_kind = "linear"
    THEN LET r == interp(dispersion_values.v, self.lookup_table_parameter, self.pixel_index, NaN, NaN)
         IN  [exc |-> r.exc, v |-> Num(r.v)]
    ELSE [exc |-> "NotImplementedError", v |-> None]

\* ------------------------------------------------------ Spectrum1DLinearWCS
\* u.Quantity(value, unit): a number takes the unit (dimensionless when None),
\* a quantity is converted to it.  [exc, q].
Quantity(value, unit) ==
    IF value.t = "num"
    THEN [exc |-> "None", q |-> Q(value.v, IF unit.t = "None" THEN u_one ELSE unit.unit)]
    ELSE IF unit.t = "None" THEN [exc |-> "None", q |-> value]
    ELSE IF ~is_equivalent(value.unit, unit.unit)
    THEN [exc |-> "UnitConversionError", q |-> value]
    ELSE LET k == value.unit.scale - unit.unit.scale
         IN  [exc |-> "None",
              q |-> Q(IF k >= 0 THEN RMul(value.v, R(Pow10(k)))
                      ELSE RDiv(value.v, R(Pow10(-k))), unit.unit)]

\* Spectrum1DLinearWCS(dispersion0, dispersion_delta, pixel_index, unit): [exc, self].
Spectrum1DLinearWCS__init__(dispersion0, dispersion_delta, pixel_index, unit) ==
    LET d0 == Quantity(dispersion0, unit)
        dd == Quantity(dispersion_delta, unit)
    IN  IF d0.exc # "None" THEN [exc |-> d0.exc, self |-> NoWCS]
        ELSE IF dd.exc # "None" THEN [exc |-> dd.exc, self |-> NoWCS]
        ELSE IF ~check_valid_unit(d0.q.unit) THEN [exc |-> "ValueError", self |-> NoWCS]
        ELSE IF ~check_valid_unit(dd.q.unit) THEN [exc |-> "ValueError", self |-> NoWCS]
        ELSE [exc |-> "None",
              self |-> [cls |-> "Linear",
                        unit |-> IF unit.t = "None" THEN d0.q.unit ELSE unit.unit,
                        dispersion0 |-> d0.q.v,
                        dispersion_delta |-> dd.q.v,
                        pixel_index |-> pixel_index]]

\* Spectrum1DLinearWCS.__call__(pixel_indices), a scalar index: [exc, v].
Spectrum1DLinearWCS__call__(self, pixel_indices) ==
    [exc |-> "None",
     v |-> Q(RAdd(self.dispersion0,
                  RMul(self.dispersion_delta, RSub(pixel_indices, self.pixel_index))),
             self.unit)]

\* invert without the reference pixel: (value - dispersion0) / dispersion_delta.
Spectrum1DLinearWCS_invert_NoReferencePixel(self, dispersion_values) ==
    IF dispersion_values.t # "Q"
    THEN [exc |-> "UnitsException", v |-> None]
    ELSE [exc |-> "None",
          v |-> Num(RDiv(RSub(dispersion_values.v, self.dispersion0), self.dispersion_delta))]

\* Spectrum1DLinearWCS.invert(dispersion_values), a scalar: [exc, v].
Spectrum1DLinearWCS_invert(self, dispersion_values) ==
    IF dispersion_values.t # "Q"
    THEN [exc |-> "UnitsException", v |-> None]
    ELSE [exc |-> "None",
          v |-> Num(RAdd(RDiv(RSub(dispersion_values.v, self.dispersion0),
                              self.dispersion_delta),
                         self.pixel_index))]

\* ------------------------------------------------------------- FITS header
\* A header maps upper-case keywords to values; astropy's Header folds the
\* case of a keyword on every access.
EmptyHeader == [k \in {} |-> None]

Upper(kw) ==
    CASE kw = "crval" -> "CRVAL"
      [] kw = "crpix" -> "CRPIX"
      [] kw = "cdelt" -> "CDELT"
      [] kw = "cunit" -> "CUNIT"
      [] OTHER        -> kw

\* The keyword 'crval%d' % n as the pair <<"crval", n>>.
Key(kw, n) == <<Upper(kw), n>>
HeaderSet(header, kw, n, value) ==
    [k \in DOMAIN header \cup {Key(kw, n)} |-> IF k = Key(kw, n) THEN value ELSE header[k]]
HeaderHas(header, kw, n) == Key(kw, n) \in DOMAIN header
HeaderGet(header, kw, n) == IF HeaderHas(header, kw, n) THEN header[Key(kw, n)] ELSE None

\* to_fits_header writing the zero-based pixel_index as CRPIX.
to_fits_header_ZeroBased(self, fits_header, n) ==
    LET h1 == HeaderSet(fits_header, "crval", n, Num(self.dispersion0))
        h2 == HeaderSet(h1, "crpix", n, Num(self.pixel_index))
        h3 == HeaderSet(h2, "cdelt", n, Num(self.dispersion_delta))
    IN  HeaderSet(h3, "cunit", n, Str(to_string(self.unit)))

\* Spectrum1DLinearWCS.to_fits_header(fits_header, spectroscopic_axis_number)
to_fits_header(self, fits_header, n) ==
    LET h1 == HeaderSet(fits_header, "crval", n, Num(self.dispersion0))
        h2 == HeaderSet(h1, "crpix", n, Num(RAdd(self.pixel_index, R(1))))
        h3 == HeaderSet(h2, "cdelt", n, Num(self.dispersion_delta))
    IN  HeaderSet(h3, "cunit", n, Str(to_string(self.unit)))

\* Spectrum1DLinearWCS.from_fits_header(header, unit, spectroscopic_axis_number)
from_fits_header(header, unit, n) ==
    LET parsed == IF unit.t = "None" THEN Unit(HeaderGet(header, "CUNIT", n))
                  ELSE [exc |-> "None", unit |-> unit.unit]
    IN  IF parsed.exc = "TypeError" THEN [exc |-> "Spectrum1DWCSUnitError", self |-> NoWCS]
        ELSE IF parsed.exc # "None" THEN [exc |-> parsed.exc, self |-> NoWCS]
        ELSE IF ~HeaderHas(header, "CDELT", n) /\ ~HeaderHas(header, "CD", n)
        THEN [exc |-> "Spectrum1DWCSFITSError", self |-> NoWCS]
        ELSE IF ~HeaderHas(header, "CRPIX", n) \/ ~HeaderHas(header, "CRVAL", n)
        THEN [exc |-> "Spectrum1DWCSFITSError", self |-> NoWCS]
        ELSE LET cdelt == IF HeaderHas(header, "CDELT", n) THEN HeaderGet(header, "CDELT", n)
                          ELSE HeaderGet(header, "CD", n)
                 crpix == HeaderGet(header, "CRPIX", n)
                 crval == HeaderGet(header, "CRVAL", n)
             IN  Spectrum1DLinearWCS__init__(crval, cdelt, RSub(crpix.v, R(1)), UnitObj(parsed.unit))

\* ------------------------------------------------- the transforms' machine
VARIABLES
    wcs,          \* the transform under test (NoWCS before construction)
    wcs_init,     \* the constructor call that made it: its arguments and outcome
    dispersion,   \* the last __call__: its pixel index and outcome
    pixel,        \* the last invert: its input and outcome
    fits_header,  \* the header to_fits_header wrote (and the user then edited)
    restored,     \* the last from_fits_header: its arguments and outcome
    heap,         \* the array buffers allocated so far, each a sequence of cells
    spectra,      \* the Spectrum1D objects alive, in order of creation
    origin,       \* how each object was made, and from which object
    assigned,     \* per object: has a setter accepted an assignment to it
    ret,          \* the last operation on the containers: arguments and outcome
    calls         \* the operations done since the first construction

wcs_vars == <<wcs, wcs_init, dispersion, pixel, fits_header, restored>>
spectrum_vars == <<heap, spectra, origin, assigned, ret, calls>>
vars == <<wcs_vars, spectrum_vars>>

NoCall == [op |-> "none"]

RECURSIVE SeqsUpTo(_, _)
\* All sequences over S of length at most n.
SeqsUpTo(S, n) ==
    IF n = 0 THEN {<<>>}
    ELSE LET shorter == SeqsUpTo(S, n - 1)
         IN  shorter \cup {Append(q, x) : q \in shorter, x \in S}

\* Inputs of the transforms.
Tables == SeqsUpTo({R(v) : v \in 1..MaxVal}, MaxLen)
LookupTables ==
    {[value |-> tb, ndim |-> 1, unit |-> un] : tb \in Tables, un \in {None, UnitObj(u_AA), UnitObj(u_kg)}}
    \cup {[value |-> <<>>, ndim |-> 2, unit |-> UnitObj(u_AA)]}
LookupUnits == {None, UnitObj(u_AA), Str("Hz"), Str("kg"), Str("blah")}
Kinds == {"linear", "cubic"}
\* Pixel indices, whole and half, from one below the table to one past it.
Pixels == {Norm(k, 2) : k \in -2..(2 * MaxLen)}
Dispersion0s == {Num(R(v)) : v \in 0..MaxVal} \cup {Q(R(2), u_km), Q(R(1), u_kg)}
DispersionDeltas == {Num(R(v)) : v \in -1..MaxVal} \cup {Num(Norm(3, 2)), Q(R(1), u_km)}
LinearUnits == {None, UnitObj(u_m), UnitObj(u_Hz), UnitObj(u_kg)}
AxisNumbers == {1, 2}

NoSpectrum ==
    /\ heap = <<>>
    /\ spectra = <<>>
    /\ origin = <<>>
    /\ assigned = <<>>
    /\ ret = NoCall
    /\ calls = 0

InitWCS ==
    /\ NoSpectrum
    /\ wcs = NoWCS
    /\ wcs_init = NoCall
    /\ dispersion = NoCall
    /\ pixel = NoCall
    /\ fits_header = EmptyHeader
    /\ restored = NoCall

\* wcs = Spectrum1DLookupWCS(lookup_table, unit, kind)
NewLookup ==
    /\ wcs_init = NoCall
    /\ \E lookup_table \in LookupTables, unit \in LookupUnits, kind \in Kinds :
         LET r == Spectrum1DLookupWCS__init__(lookup_table, unit, kind)
         IN  /\ wcs' = r.self
             /\ wcs_init' = [op |-> "Lookup", lookup_table |-> lookup_table, unit |-> unit,
                             kind |-> kind, exc |-> r.exc]
    /\ UNCHANGED <<dispersion, pixel, fits_header, restored>>
    /\ UNCHANGED spectrum_vars

\* wcs = Spectrum1DLinearWCS(dispersion0, dispersion_delta, pixel_index, unit)
NewLinear ==
    /\ wcs_init = NoCall
    /\ \E dispersion0 \in Dispersion0s, dispersion_delta \in DispersionDeltas,
          pixel_index \in 0..(MaxLen - 1), unit \in LinearUnits :
         LET r == Spectrum1DLinearWCS__init__(dispersion0, dispersion_delta, R(pixel_index), unit)
         IN  /\ wcs' = r.self
             /\ wcs_init' = [op |-> "Linear", dispersion0 |-> dispersion0,
                             dispersion_delta |-> dispersion_delta,
                             pixel_index |-> pixel_index, unit |-> unit, exc |-> r.exc]
    /\ UNCHANGED <<dispersion, pixel, fits_header, restored>>
    /\ UNCHANGED spectrum_vars

\* The transform is immutable once built, so its evaluations and its header
\* traffic do not interact: a behaviour does the one or the other.
NoHeaderTraffic == fits_header = EmptyHeader /\ restored = NoCall
NoEvaluation == dispersion = NoCall /\ pixel = NoCall

\* wcs(p)
Call ==
    /\ wcs # NoWCS
    /\ NoHeaderTraffic
    /\ \E p \in Pixels :
         LET r == IF wcs.cls = "Lookup" THEN Spectrum1DLookupWCS__call__(wcs, p)
                  ELSE Spectrum1DLinearWCS__call__(wcs, p)
         IN  dispersion' = [op |-> "call", p |-> p, exc |-> r.exc, v |-> r.v]
    /\ pixel' = NoCall
    /\ UNCHANGED <<wcs, wcs_init, fits_header, restored>>
    /\ UNCHANGED spectrum_vars

\* wcs.invert(v), v the value the last call returned or a value of the user's
Invert ==
    /\ wcs # NoWCS
    /\ NoHeaderTraffic
    /\ \E v \in (IF dispersion # NoCall /\ dispersion.exc = "None" THEN {dispersion.v} ELSE {})
                \cup {Q(R(2), wcs.unit), Num(R(2))} :
         LET r == IF wcs.cls = "Lookup" THEN Spectrum1DLookupWCS_invert(wcs, v)
                  ELSE Spectrum1DLinearWCS_invert(wcs, v)
         IN  pixel' = [op |-> "invert", arg |-> v, exc |-> r.exc, v |-> r.v]
    /\ UNCHANGED <<wcs, wcs_init, dispersion, fits_header, restored>>
    /\ UNCHANGED spectrum_vars

\* wcs.to_fits_header(header, n) on a fresh header
ToFitsHeader ==
    /\ wcs # NoWCS /\ wcs.cls = "Linear"
    /\ NoEvaluation
    /\ \E n \in AxisNumbers : fits_header' = to_fits_header(wcs, EmptyHeader, n)
    /\ restored' = NoCall
    /\ UNCHANGED <<wcs, wcs_init, dispersion, pixel>>
    /\ UNCHANGED spectrum_vars

\* The four keywords of every axis a header was written for.
Complete(header) ==
    \A k \in DOMAIN header :
        \A kw \in {"CRVAL", "CRPIX", "CDELT", "CUNIT"} : <<kw, k[2]>> \in DOMAIN header

\* The user edits the written header: drops one card, or stores the step under
\* CDn_n instead of CDELTn.
EditHeader ==
    /\ fits_header # EmptyHeader /\ Complete(fits_header)
    /\ restored = NoCall
    /\ \E k \in DOMAIN fits_header, cd \in BOOLEAN :
         fits_header' =
            IF cd
            THEN [j \in (DOMAIN fits_header \ {<<"CDELT", k[2]>>}) \cup {<<"CD", k[2]>>} |->
                    IF j = <<"CD", k[2]>> THEN fits_header[<<"CDELT", k[2]>>] ELSE fits_header[j]]
            ELSE [j \in DOMAIN fits_header \ {k} |-> fits_header[j]]
    /\ UNCHANGED <<wcs, wcs_init, dispersion, pixel, restored>>
    /\ UNCHANGED spectrum_vars

\* Spectrum1DLinearWCS.from_fits_header(fits_header, unit, n)
FromFitsHeader ==
    /\ fits_header # EmptyHeader
    /\ \E unit \in {None, UnitObj(u_Hz)}, n \in AxisNumbers :
         LET r == from_fits_header(fits_header, unit, n)
         IN  restored' = [op |-> "from_fits_header", unit |-> unit, n |-> n,
                          exc |-> r.exc, self |-> r.self]
    /\ UNCHANGED <<wcs, wcs_init, dispersion, pixel, fits_header>>
    /\ UNCHANGED spectrum_vars

NextWCS ==
    \/ NewLookup
    \/ NewLinear
    \/ Call
    \/ Invert
    \/ ToFitsHeader
    \/ EditHeader
    \/ FromFitsHeader

SpecWCS == InitWCS /\ [][NextWCS]_vars

\* ------------------------------------------------------ arrays on a heap
\* A heap is a sequence of buffers, a buffer a sequence of cells.  An ndarray
\* [t |-> "ndarray", buf, idx, shape] is a view: its cells, in row-major
\* order, are the cells idx[1], idx[2], ... of buffer buf.  Basic indexing
\* returns a view of the same buffer; deepcopy and np.array(...) a new buffer.
Absent == [t |-> "absent"]

RECURSIVE Prod(_)
Prod(shape) == IF shape = <<>> THEN 1 ELSE Head(shape) * Prod(Tail(shape))

Reverse(q) == [i \in 1..Len(q) |-> q[Len(q) + 1 - i]]

NdArray(buf, idx, shape) == [t |-> "ndarray", buf |-> buf, idx |-> idx, shape |-> shape]
IsArray(x) == x.t = "ndarray"

\* The cells of a view, in order.
Values(h, a) == [k \in 1..Len(a.idx) |-> h[a.buf][a.idx[k]]]

\* A new buffer holding cells, seen whole with the given shape: [heap, array].
Alloc(h, cells, shape) ==
    [heap |-> Append(h, cells),
     array |-> NdArray(Len(h) + 1, [k \in 1..Len(cells) |-> k], shape)]

\* A copy that hands back the very array it was given.
deepcopy_Alias(h, a) == [heap |-> h, array |-> a]

\* copy.deepcopy of an array (None stays None): [heap, array].
deepcopy(h, a) ==
    IF IsArray(a) THEN Alloc(h, Values(h, a), a.shape) ELSE [heap |-> h, array |-> a]

\* A Python index is an integer [t |-> "int", i] or a slice with no step
\* [t |-> "slice", start, stop], bounds being integers or None.
Idx(i) == [t |-> "int", i |-> i]
Slice(start, stop) == [t |-> "slice", start |-> start, stop |-> stop]
SliceOf(i, j) == Slice(Idx(i), Idx(j))

\* slice.indices(n) for step 1: <<start, stop>> clipped to 0..n.
Clip(b, n, default) ==
    IF b.t = "None" THEN default
    ELSE IF b.i < 0 THEN (IF b.i + n < 0 THEN 0 ELSE b.i + n)
    ELSE IF b.i > n THEN n ELSE b.i
SliceIndices(item, n) == <<Clip(item.start, n, 0), Clip(item.stop, n, n)>>

\* The zero-based rows of an axis of length n an index selects (an integer
\* outside -n..n-1 is an IndexError, caught by IndexOK).
Rows(item, n) ==
    IF item.t = "int"
    THEN <<IF item.i < 0 THEN item.i + n ELSE item.i>>
    ELSE LET se == SliceIndices(item, n)
         IN  [k \in 1..(IF se[2] > se[1] THEN se[2] - se[1] ELSE 0) |-> se[1] + k - 1]

RECURSIVE IndexOK(_, _)
\* Whether shape admits the per-axis indices items.
IndexOK(shape, items) ==
    IF items = <<>> THEN TRUE
    ELSE IF shape = <<>> THEN FALSE
    ELSE /\ Head(items).t = "int" => (Head(items).i >= -Head(shape) /\ Head(items).i < Head(shape))
         /\ IndexOK(Tail(shape), Tail(items))

RECURSIVE IndexShape(_, _)
IndexShape(shape, items) ==
    IF items = <<>> THEN shape
    ELSE (IF Head(items).t = "int" THEN <<>> ELSE <<Len(Rows(Head(items), Head(shape)))>>)
         \o IndexShape(Tail(shape), Tail(items))

RECURSIVE Concat(_)
Concat(qs) == IF qs = <<>> THEN <<>> ELSE Head(qs) \o Concat(Tail(qs))

RECURSIVE IndexCells(_, _, _)
\* The cells of the view idx (of the given shape) that items selects.
IndexCells(idx, shape, items) ==
    IF items = <<>> THEN idx
    ELSE LET stride == Prod(Tail(shape))
             rows == Rows(Head(items), Head(shape))
         IN  Concat([k \in 1..Len(rows) |->
                        IndexCells(SubSeq(idx, rows[k] * stride + 1, (rows[k] + 1) * stride),
                                   Tail(shape), Tail(items))])

\* An index as numpy reads it: a tuple indexes the leading axes, anything else
\* the first axis.
Items(item) == IF item.t = "tuple" THEN item.items ELSE <<item>>
Tuple(items) == [t |-> "tuple", items |-> items]

\* a[item]: the view numpy's basic indexing returns, [exc, array].
getitem(a, item) ==
    IF ~IndexOK(a.shape, Items(item))
    THEN [exc |-> "IndexError", array |-> a]
    ELSE [exc |-> "None",
          array |-> NdArray(a.buf, IndexCells(a.idx, a.shape, Items(item)),
                            IndexShape(a.shape, Items(item)))]

\* ---------------------------------------------------------- Spectrum1D
\* astropy.constants.c in m / s
speed_of_light == 299792458

Unset == [t |-> "unset"]
\* An array quantity (flux, spectral axis): an ndarray and a unit.
QA(array, unit) == [t |-> "Q", value |-> array, unit |-> unit]
\* A radial velocity or redshift: one number repeated over a shape.
QV(r, unit, shape) == [t |-> "Q", v |-> r, unit |-> unit, shape |-> shape]
NumV(r, shape) == [t |-> "num", v |-> r, shape |-> shape]

\* val * cnst.c
TimesC(val) == QV(RMul(val.v, R(speed_of_light)), u_m_s, val.shape)
\* val / cnst.c
OverC(val) == QV(RDiv(val.v, R(speed_of_light)), UnitDiv(val.unit, u_m_s), val.shape)

\* SpectralCoord(quantity, redshift, radial_velocity, doppler_rest,
\* doppler_convention): a copy of the values with the radial velocity given,
\* or redshift * c.  [heap, sc]
SpectralCoord(h, quantity, redshift, radial_velocity, doppler_rest, doppler_convention) ==
    LET al == Alloc(h, Values(h, quantity.value), quantity.value.shape)
    IN  [heap |-> al.heap,
         sc |-> [t |-> "SpectralCoord", value |-> al.array, unit |-> quantity.unit,
                 radial_velocity |-> IF radial_velocity # None THEN radial_velocity
                                     ELSE IF redshift # None THEN TimesC(redshift)
                                     ELSE None,
                 doppler_rest |-> doppler_rest,
                 doppler_convention |-> doppler_convention]]

\* gwcs_from_array(quantity): a lookup-table wcs over a copy of the values.
gwcs_from_array(h, quantity) ==
    LET al == Alloc(h, Values(h, quantity.value), quantity.value.shape)
    IN  [heap |-> al.heap, wcs |-> [t |-> "gwcs", table |-> al.array, unit |-> quantity.unit]]

\* gwcs_from_array(np.arange(size) * u.Unit(""))
gwcs_from_arange(h, size) ==
    LET al == Alloc(h, [k \in 1..size |-> k - 1], <<size>>)
    IN  [heap |-> al.heap, wcs |-> [t |-> "gwcs", table |-> al.array, unit |-> u_one]]

\* Spectrum1D.spectral_axis: the Spectral Coordinate the container was built
\* on, else the one its wcs describes.
get_spectral_axis(self) ==
    IF self.spectral_axis # Unset THEN self.spectral_axis
    ELSE [t |-> "SpectralCoord", value |-> self.wcs.table, unit |-> self.wcs.unit,
          radial_velocity |-> None, doppler_rest |-> None, doppler_convention |-> None]

\* Spectrum1D.flux: the data as a quantity in the container's unit (a view).
get_flux(self) == QA(self.data, IF self.unit.t = "Unit" THEN self.unit.unit ELSE u_one)

\* A container that holds an array, as against the minimal mode of line 97.
IsSpectrum(x) == x.t = "Spectrum1D" /\ IsArray(x.data)

Raise(h, e) == [exc |-> e, self |-> None, heap |-> h]

\* NDData.__init__(data, uncertainty, mask, wcs, meta, unit): the arguments
\* are stored as they are (copy=False); meta defaults to a new dict.
NDData__init__(h, data, gw, kw_unit, kw_uncertainty, kw_mask, kw_meta) ==
    LET al == IF kw_meta = Absent \/ kw_meta = None
              THEN Alloc(h, <<0>>, <<1>>) ELSE [heap |-> h, array |-> kw_meta]
    IN  [heap |-> al.heap,
         self |-> [t |-> "Spectrum1D",
                   data |-> data,
                   unit |-> IF kw_unit = Absent THEN None ELSE kw_unit,
                   uncertainty |-> IF kw_uncertainty = Absent THEN None ELSE kw_uncertainty,
                   mask |-> IF kw_mask = Absent THEN None ELSE kw_mask,
                   meta |-> al.array,
                   wcs |-> gw,
                   spectral_axis |-> Unset,
                   velocity_convention |-> Unset,
                   rest_value |-> Unset,
                   radial_velocity |-> Unset]]

\* The test of line 77 inverted on radial_velocity.
BothSet_OnlyRedshift(redshift, radial_velocity) == redshift # None /\ radial_velocity = None

\* redshift is not None and radial_velocity is not None
BothSet(redshift, radial_velocity) == redshift # None /\ radial_velocity # None

\* The shape test of the radial_velocity setter:
\* all((m == n) or (m == 1) or (n == 1) for m, n in zip(input_shape[::-1], flux_shape))
ShapesCompatible(input_shape, flux_shape) ==
    LET rev == Reverse(input_shape)
        n == IF Len(rev) < Len(flux_shape) THEN Len(rev) ELSE Len(flux_shape)
    IN  \A k \in 1..n : rev[k] = flux_shape[k] \/ rev[k] = 1 \/ flux_shape[k] = 1

\* Spectrum1D.radial_velocity = val: [exc, self]
set_radial_velocity(self, val) ==
    IF val = None THEN [exc |-> "None", self |-> [self EXCEPT !.radial_velocity = None]]
    ELSE IF ~is_equivalent(val.unit, u_km_s) THEN [exc |-> "UnitsError", self |-> self]
    ELSE LET input_shape == val.shape
             full == get_flux(self).value.shape
             flux_shape == SubSeq(full, 1, Len(full) - 1)
         IN  IF ~ShapesCompatible(input_shape, flux_shape)
             THEN [exc |-> "ValueError", self |-> self]
             ELSE [exc |-> "None", self |-> [self EXCEPT !.radial_velocity = val]]

\* Spectrum1D.redshift = val: [exc, self]
set_redshift(self, val) ==
    IF val = None THEN [exc |-> "None", self |-> [self EXCEPT !.radial_velocity = None]]
    ELSE set_radial_velocity(self, TimesC(val))

\* Spectrum1D.radial_velocity: [exc, v]
get_radial_velocity(self) ==
    IF self.radial_velocity = Unset THEN [exc |-> "AttributeError", v |-> None]
    ELSE [exc |-> "None", v |-> self.radial_velocity]

\* Spectrum1D.redshift: self._radial_velocity / cnst.c, [exc, v]
get_redshift(self) ==
    IF self.radial_velocity = Unset THEN [exc |-> "AttributeError", v |-> None]
    ELSE IF self.radial_velocity = None THEN [exc |-> "TypeError", v |-> None]
    ELSE [exc |-> "None", v |-> OverC(self.radial_velocity)]

\* The arguments of Spectrum1D(...), each None (or Absent, for a keyword of
\* **kwargs) unless given.
NoArgs ==
    [flux |-> None, spectral_axis |-> None, wcs |-> None, velocity_convention |-> None,
     rest_value |-> None, redshift |-> None, radial_velocity |-> None,
     kw_data |-> Absent, kw_unit |-> Absent, kw_uncertainty |-> Absent,
     kw_meta |-> Absent, kw_mask |-> Absent, kw_unknown |-> FALSE]

IsQuantity(x) == x.t = "Q" \/ x.t = "SpectralCoord"
ShapeOf(x) == IF IsArray(x) THEN x.shape ELSE x.value.shape

\* Lines 128-161: what __init__ does once flux, wcs and the Spectral
\* Coordinate are settled.  [exc, self, heap]
Spectrum1D__init__finish(h, a, flux, gw, sc) ==
    LET rest == IF a.rest_value = None THEN [exc |-> "None", q |-> Q(R(0), u_AA)]
                ELSE IF a.rest_value.t # "Q"
                THEN (IF a.spectral_axis = None THEN [exc |-> "AttributeError", q |-> None]
                      ELSE [exc |-> "None", q |-> Q(a.rest_value.v, a.spectral_axis.unit)])
                ELSE IF ~is_equivalent(a.rest_value.unit, u_AA)
                        /\ ~is_equivalent(a.rest_value.unit, u_Hz)
                THEN [exc |-> "UnitsError", q |-> None]
                ELSE [exc |-> "None", q |-> a.rest_value]
    IN  IF rest.exc # "None" THEN Raise(h, rest.exc)
        ELSE LET unit == IF a.kw_unit # Absent THEN a.kw_unit
                         ELSE IF flux.t = "Q" THEN UnitObj(flux.unit) ELSE None
                 nd == NDData__init__(h, IF flux.t = "Q" THEN flux.value ELSE flux, gw,
                                      unit, a.kw_uncertainty, a.kw_mask, a.kw_meta)
                 self1 == [nd.self EXCEPT !.spectral_axis = sc,
                                          !.velocity_convention = a.velocity_convention,
                                          !.rest_value = rest.q]
                 \* self.radial_velocity = self.spectral_axis.radial_velocity
                 st == set_radial_velocity(self1, get_spectral_axis(self1).radial_velocity)
             IN  IF st.exc # "None" THEN Raise(nd.heap, st.exc)
                 ELSE IF st.self.uncertainty # None
                         /\ ShapeOf(flux) # st.self.uncertainty.shape
                 THEN Raise(nd.heap, "ValueError")
                 ELSE [exc |-> "None", self |-> st.self, heap |-> nd.heap]

\* Spectrum1D.__init__(flux, spectral_axis, wcs, velocity_convention,
\* rest_value, redshift, radial_velocity, **kwargs): [exc, self, heap]
Spectrum1D__init__(h, a) ==
    IF a.kw_unknown THEN Raise(h, "ValueError")
    ELSE IF a.flux.t = "Spectrum1D"
    THEN \* lines 62-67: NDData.__init__(flux) takes every attribute of flux
         IF a.flux.velocity_convention = Unset THEN Raise(h, "AttributeError")
         ELSE LET nd == NDData__init__(h, a.flux.data, a.flux.wcs, a.flux.unit,
                                       a.flux.uncertainty, a.flux.mask, a.flux.meta)
              IN  [exc |-> "None", heap |-> nd.heap,
                   self |-> [nd.self EXCEPT !.velocity_convention = a.flux.velocity_convention,
                                            !.rest_value = a.flux.rest_value]]
    ELSE IF a.flux # None /\ a.flux.t # "Q" THEN Raise(h, "ValueError")
    ELSE LET \* flux = u.Quantity([flux]) for a scalar flux
             sc0 == IF a.flux # None /\ a.flux.value.shape = <<>>
                    THEN Alloc(h, Values(h, a.flux.value), <<1>>)
                    ELSE [heap |-> h, array |-> None]
             flux1 == IF sc0.array # None THEN QA(sc0.array, a.flux.unit) ELSE a.flux
             h1 == sc0.heap
         IN
         IF BothSet(a.redshift, a.radial_velocity) THEN Raise(h1, "ValueError")
         ELSE LET flux == IF flux1 = None /\ a.kw_data # Absent THEN a.kw_data ELSE flux1
                  unit == IF a.kw_unit # Absent THEN a.kw_unit
                          ELSE IF flux.t = "Q" THEN UnitObj(flux.unit) ELSE None
              IN
              IF flux.t # "Q" /\ (~IsArray(flux) \/ flux.shape = <<>>)
              THEN \* lines 94-98: the minimal mode
                   LET nd == NDData__init__(h1, flux, a.wcs, unit, a.kw_uncertainty,
                                            a.kw_mask, a.kw_meta)
                   IN  [exc |-> "None", self |-> nd.self, heap |-> nd.heap]
              ELSE IF a.spectral_axis # None
              THEN IF ~IsQuantity(a.spectral_axis) THEN Raise(h1, "ValueError")
                   ELSE LET made == IF a.spectral_axis.t # "SpectralCoord"
                                    THEN SpectralCoord(h1, a.spectral_axis, a.redshift,
                                                       a.radial_velocity, a.rest_value,
                                                       a.velocity_convention)
                                    ELSE [heap |-> h1, sc |-> a.spectral_axis]
                            gw == gwcs_from_array(made.heap, a.spectral_axis)
                        IN  IF a.spectral_axis.value.shape[1] # ShapeOf(flux)[Len(ShapeOf(flux))]
                            THEN Raise(gw.heap, "ValueError")
                            ELSE Spectrum1D__init__finish(gw.heap, a, flux, gw.wcs, made.sc)
              ELSE IF a.wcs = None
              THEN IF flux.t # "Q" THEN Raise(h1, "AttributeError")
                   ELSE LET gw == gwcs_from_arange(h1, flux.value.shape[1])
                        IN  Spectrum1D__init__finish(gw.heap, a, flux, gw.wcs, Unset)
              ELSE Spectrum1D__init__finish(h1, a, flux, a.wcs, Unset)

\* deepcopy of a Spectral Coordinate: [heap, sc]
deepcopy_sc(h, sc) ==
    LET al == deepcopy(h, sc.value)
    IN  [heap |-> al.heap, sc |-> [sc EXCEPT !.value = al.array]]

\* Spectrum1D._copy(**kwargs); kwargs holds flux and uncertainty, Absent when
\* not overridden.  [exc, self, heap]
Spectrum1D_copy(h, self, kwargs) ==
    IF self.velocity_convention = Unset THEN Raise(h, "AttributeError")
    ELSE LET c1 == deepcopy(h, get_flux(self).value)
             c2 == deepcopy_sc(c1.heap, get_spectral_axis(self))
             c3 == deepcopy(c2.heap, self.uncertainty)
             c4 == deepcopy(c3.heap, self.wcs.table)
             c5 == deepcopy(c4.heap, self.mask)
             c6 == deepcopy(c5.heap, self.meta)
         IN  Spectrum1D__init__(c6.heap,
                 [NoArgs EXCEPT
                    !.flux = IF kwargs.flux # Absent THEN kwargs.flux
                             ELSE QA(c1.array, get_flux(self).unit),
                    !.spectral_axis = c2.sc,
                    !.kw_uncertainty = IF kwargs.uncertainty # Absent THEN kwargs.uncertainty
                                       ELSE c3.array,
                    !.wcs = [self.wcs EXCEPT !.table = c4.array],
                    !.kw_mask = c5.array,
                    !.kw_meta = c6.array,
                    !.kw_unit = self.unit,
                    !.velocity_convention = self.velocity_convention,
                    !.rest_value = self.rest_value])

NoOverrides == [flux |-> Absent, uncertainty |-> Absent]

\* NDSlicingMixin.__getitem__(item), which Spectrum1D.__getitem__ delegates
\* to: data, uncertainty, mask and wcs are sliced, unit and meta handed over.
NDSlicing__getitem__(h, self, item) ==
    IF self.data.shape = <<>> THEN Raise(h, "TypeError")
    ELSE LET d == getitem(self.data, item)
             tb == Alloc(h, Values(h, getitem(self.wcs.table, item).array),
                         getitem(self.wcs.table, item).array.shape)
         IN  IF d.exc # "None" THEN Raise(h, d.exc)
             ELSE Spectrum1D__init__(tb.heap,
                     [NoArgs EXCEPT
                        !.kw_data = d.array,
                        !.kw_uncertainty = IF self.uncertainty = None THEN None
                                           ELSE getitem(self.uncertainty, item).array,
                        !.kw_mask = IF self.mask = None THEN None
                                    ELSE getitem(self.mask, item).array,
                        !.wcs = [self.wcs EXCEPT !.table = tb.array],
                        !.kw_unit = self.unit,
                        !.kw_meta = self.meta])

\* Spectrum1D.__getitem__(item): [exc, self, heap]
Spectrum1D__getitem__(h, self, item) ==
    IF Len(get_flux(self).value.shape) > 1
    THEN LET f == getitem(get_flux(self).value, item)
             unc == IF self.uncertainty # None THEN getitem(self.uncertainty, item).array
                    ELSE None
         IN  IF f.exc # "None" THEN Raise(h, f.exc)
             ELSE Spectrum1D_copy(h, self, [flux |-> QA(f.array, get_flux(self).unit),
                                            uncertainty |-> unc])
    ELSE IF item.t = "tuple" THEN Raise(h, "TypeError")
    ELSE NDSlicing__getitem__(h, self,
             IF item.t # "slice" THEN SliceOf(item.i, item.i + 1) ELSE item)

\* ----------------------------------------------- the containers' machine
MaxDim == 3
MaxSide == 2
MaxCells == 4
MaxShape == 3
MaxObjs == 2
MaxCalls == 2

\* Shapes of the flux handed to the constructor.
FluxShapes ==
    {sh \in SeqsUpTo(1..MaxSide, MaxDim) : sh # <<>> /\ Prod(sh) <= MaxCells}
\* Radial velocities and redshifts the user hands over.
RadialVelocities ==
    {QV(R(1), u_km_s, <<>>), QV(R(1), u_m, <<>>)}
    \cup {QV(R(2), u_km_s, <<n>>) : n \in 2..MaxShape}
Redshifts == {QV(R(1), u_one, <<>>)}
\* The flux argument: nothing, a bare number, a scalar quantity, an array.
FluxArgs == {<<"none", <<>>>>, <<"number", <<>>>>, <<"scalar", <<>>>>} \cup ({"array"} \X FluxShapes)
\* The spectral axis: none, a quantity, a Spectral Coordinate (with or without
\* a radial velocity of its own), a ready wcs, a bare number, each of a length.
AxisArgs ==
    {<<"alone", 0>>, <<"number", 0>>}
    \cup ({"Quantity", "SpectralCoord", "SpectralCoord_rv", "wcs"} \X (1..MaxSide))
\* One further argument at a time.
ExtraArgs ==
    {"none", "uncertainty", "uncertainty_other_shape", "mask", "rest_value",
     "rest_value_number", "rest_value_kg", "velocity_convention", "unknown_keyword"}
\* The calls tried: a further argument, or a redshift, a radial velocity or both.
Calls ==
    {<<extra, None, None>> : extra \in ExtraArgs}
    \cup {<<"none", redshift, radial_velocity>> :
            redshift \in {None} \cup Redshifts,
            radial_velocity \in {None} \cup RadialVelocities}

\* The cells 1..n of a new array.
Ramp(n) == [k \in 1..n |-> k]

\* The caller's arrays and the arguments over them: [heap, a]
BuildArgs(flux, axis, extra, redshift, radial_velocity) ==
    LET shape == flux[2]
        f == IF flux[1] \in {"none", "number"} THEN [heap |-> heap, array |-> None]
             ELSE Alloc(heap, Ramp(Prod(shape)), shape)
        x == IF axis[1] \in {"alone", "number"} THEN [heap |-> f.heap, array |-> None]
             ELSE Alloc(f.heap, Ramp(axis[2]), <<axis[2]>>)
        other == IF shape = <<>> THEN <<2>> ELSE Append(shape, 2)
        e == IF extra = "uncertainty" THEN Alloc(x.heap, Ramp(Prod(shape)), shape)
             ELSE IF extra = "uncertainty_other_shape"
             THEN Alloc(x.heap, Ramp(Prod(other)), other)
             ELSE IF extra = "mask" THEN Alloc(x.heap, [k \in 1..Prod(shape) |-> 0], shape)
             ELSE [heap |-> x.heap, array |-> Absent]
    IN  [heap |-> e.heap,
         a |-> [NoArgs EXCEPT
            !.flux = IF flux[1] = "none" THEN None
                     ELSE IF flux[1] = "number" THEN Num(R(1))
                     ELSE QA(f.array, u_Jy),
            !.spectral_axis =
                IF axis[1] = "number" THEN Num(R(1))
                ELSE IF axis[1] = "Quantity" THEN QA(x.array, u_AA)
                ELSE IF axis[1] \in {"SpectralCoord", "SpectralCoord_rv"}
                THEN [t |-> "SpectralCoord", value |-> x.array, unit |-> u_AA,
                      radial_velocity |-> IF axis[1] = "SpectralCoord_rv"
                                          THEN QV(R(3), u_km_s, <<>>) ELSE None,
                      doppler_rest |-> None, doppler_convention |-> None]
                ELSE None,
            !.wcs = IF axis[1] = "wcs"
                    THEN [t |-> "gwcs", table |-> x.array, unit |-> u_AA] ELSE None,
            !.kw_uncertainty = IF extra \in {"uncertainty", "uncertainty_other_shape"}
                               THEN e.array ELSE Absent,
            !.kw_mask = IF extra = "mask" THEN e.array ELSE Absent,
            !.rest_value = IF extra = "rest_value" THEN Q(R(5), u_AA)
                           ELSE IF extra = "rest_value_number" THEN Num(R(5))
                           ELSE IF extra = "rest_value_kg" THEN Q(R(5), u_kg)
                           ELSE None,
            !.velocity_convention = IF extra = "velocity_convention" THEN Str("optical")
                                    ELSE None,
            !.kw_unknown = (extra = "unknown_keyword"),
            !.redshift = redshift,
            !.radial_velocity = radial_velocity]]

Init ==
    /\ NoSpectrum
    /\ wcs = NoWCS
    /\ wcs_init = NoCall
    /\ dispersion = NoCall
    /\ pixel = NoCall
    /\ fits_header = EmptyHeader
    /\ restored = NoCall

\* The object r made joins the objects alive.
Born(r, op, src) ==
    /\ heap' = r.heap
    /\ spectra' = IF r.exc = "None" THEN Append(spectra, r.self) ELSE spectra
    /\ origin' = IF r.exc = "None" THEN Append(origin, [op |-> op, src |-> src]) ELSE origin
    /\ assigned' = IF r.exc = "None" THEN Append(assigned, FALSE) ELSE assigned

\* s = Spectrum1D(flux, spectral_axis, wcs, ..., **kwargs), the first call
Construct(fluxes, axes, further) ==
    /\ spectra = <<>> /\ ret = NoCall
    /\ \E flux \in fluxes, axis \in axes, call \in further :
         LET b == BuildArgs(flux, axis, call[1], call[2], call[3])
             r == Spectrum1D__init__(b.heap, b.a)
         IN  /\ Born(r, "__init__", 0)
             /\ ret' = [op |-> "__init__", a |-> b.a, exc |-> r.exc]
    /\ UNCHANGED <<calls, wcs_vars>>

\* Every way of calling the constructor.
New == Construct(FluxArgs, AxisArgs, Calls)

\* A flux array alone or with a spectral axis, with at most an uncertainty, a
\* mask or a radial velocity.
NewSpectrum ==
    Construct({"array"} \X FluxShapes,
              {<<"alone", 0>>} \cup ({"Quantity"} \X (1..MaxSide)),
              {<<extra, None, None>> : extra \in {"none", "uncertainty", "mask"}}
              \cup {<<"none", None, QV(R(1), u_km_s, <<>>)>>})

\* One more operation within the budget.
OneMoreCall == calls < MaxCalls /\ calls' = calls + 1

\* The objects an operation may be called on: those that hold an array.
Alive == {o \in 1..Len(spectra) : IsSpectrum(spectra[o])}

\* t = Spectrum1D(s, redshift=..., radial_velocity=...)
CopyConstruct ==
    /\ Len(spectra) < MaxObjs
    /\ \E o \in Alive, redshift \in {None} \cup Redshifts,
          radial_velocity \in {None, QV(R(1), u_km_s, <<>>)} :
         LET a == [NoArgs EXCEPT !.flux = spectra[o], !.redshift = redshift,
                                 !.radial_velocity = radial_velocity]
             r == Spectrum1D__init__(heap, a)
         IN  /\ Born(r, "__init__", o)
             /\ ret' = [op |-> "__init__", a |-> a, exc |-> r.exc]
    /\ OneMoreCall
    /\ UNCHANGED wcs_vars

\* The indices tried.
Indices ==
    {Idx(0), Idx(1), Idx(-1), Idx(MaxSide), SliceOf(0, 1), Slice(Idx(1), None),
     Tuple(<<Idx(0), Idx(0)>>), Tuple(<<Slice(None, None), Idx(0)>>),
     Tuple(<<Slice(None, None), SliceOf(0, 1)>>)}

\* t = s[item]
GetItem ==
    /\ Len(spectra) < MaxObjs
    /\ \E o \in Alive, item \in Indices :
         LET r == Spectrum1D__getitem__(heap, spectra[o], item)
         IN  /\ Born(r, "__getitem__", o)
             /\ ret' = [op |-> "__getitem__", src |-> o, item |-> item, exc |-> r.exc]
    /\ OneMoreCall
    /\ UNCHANGED wcs_vars

\* t = s._copy()
Copy ==
    /\ Len(spectra) < MaxObjs
    /\ \E o \in Alive :
         LET r == Spectrum1D_copy(heap, spectra[o], NoOverrides)
         IN  /\ Born(r, "_copy", o)
             /\ ret' = [op |-> "_copy", src |-> o, exc |-> r.exc]
    /\ OneMoreCall
    /\ UNCHANGED wcs_vars

\* s.radial_velocity = val
SetRadialVelocity ==
    /\ \E o \in Alive, val \in {None} \cup RadialVelocities :
         LET r == set_radial_velocity(spectra[o], val)
         IN  /\ spectra' = [spectra EXCEPT ![o] = r.self]
             /\ assigned' = [assigned EXCEPT ![o] = @ \/ r.exc = "None"]
             /\ ret' = [op |-> "set_radial_velocity", obj |-> o, val |-> val, exc |-> r.exc]
    /\ OneMoreCall
    /\ UNCHANGED <<heap, origin, wcs_vars>>

\* s.redshift = val
SetRedshift ==
    /\ \E o \in Alive, val \in {None} \cup Redshifts :
         LET r == set_redshift(spectra[o], val)
         IN  /\ spectra' = [spectra EXCEPT ![o] = r.self]
             /\ assigned' = [assigned EXCEPT ![o] = @ \/ r.exc = "None"]
             /\ ret' = [op |-> "set_redshift", obj |-> o, val |-> val, exc |-> r.exc]
    /\ OneMoreCall
    /\ UNCHANGED <<heap, origin, wcs_vars>>

\* s.redshift
GetRedshift ==
    /\ \E o \in Alive :
         LET r == get_redshift(spectra[o])
         IN  ret' = [op |-> "redshift", obj |-> o, exc |-> r.exc, v |-> r.v]
    /\ OneMoreCall
    /\ UNCHANGED <<heap, spectra, origin, assigned, wcs_vars>>

\* s.radial_velocity
GetRadialVelocity ==
    /\ \E o \in Alive :
         LET r == get_radial_velocity(spectra[o])
         IN  ret' = [op |-> "radial_velocity", obj |-> o, exc |-> r.exc, v |-> r.v]
    /\ OneMoreCall
    /\ UNCHANGED <<heap, spectra, origin, assigned, wcs_vars>>

\* The arrays of a container, by name.
ArraysOf(self) ==
    [flux |-> self.data, uncertainty |-> self.uncertainty, mask |-> self.mask,
     meta |-> self.meta, spectral_axis |-> get_spectral_axis(self).value]
ArrayNames == {"flux", "uncertainty", "mask", "meta", "spectral_axis"}

\* What a reader of the container sees in its arrays.
Contents(h, self) ==
    [f \in ArrayNames |->
        IF IsArray(ArraysOf(self)[f]) THEN Values(h, ArraysOf(self)[f]) ELSE <<>>]

\* s.flux[k] = -1 (or the same on another array of s): an in-place write
Poke ==
    /\ OneMoreCall
    /\ \E o \in Alive, f \in ArrayNames :
         LET arr == ArraysOf(spectra[o])[f]
         IN  /\ IsArray(arr)
             /\ \E k \in 1..Len(arr.idx) :
                  heap' = [heap EXCEPT ![arr.buf][arr.idx[k]] = -1]
             /\ ret' = [op |-> "poke", obj |-> o, field |-> f]
    /\ UNCHANGED <<spectra, origin, assigned, wcs_vars>>

\* Construction in all its ways, and the two velocity properties.
Next ==
    \/ New
    \/ CopyConstruct
    \/ SetRadialVelocity
    \/ SetRedshift
    \/ GetRedshift
    \/ GetRadialVelocity

Spec == Init /\ [][Next]_vars

\* Construction alone: from arguments, and from another container.
NextConstruct ==
    \/ New
    \/ CopyConstruct

SpecConstruct == Init /\ [][NextConstruct]_vars

\* Spectra that are assigned to, copied, indexed and written in place.
NextDerive ==
    \/ NewSpectrum
    \/ SetRadialVelocity
    \/ SetRedshift
    \/ Copy
    \/ GetItem
    \/ Poke

SpecDerive == Init /\ [][NextDerive]_vars

\* ------------------------------------------------ claims on the transforms
IsLinear == wcs # NoWCS /\ wcs.cls = "Linear"
IsLookup == wcs # NoWCS /\ wcs.cls = "Lookup"
\* The last invert was fed the value the last __call__ returned.
RoundTrip ==
    /\ dispersion # NoCall /\ dispersion.exc = "None"
    /\ pixel # NoCall /\ pixel.arg = dispersion.v

\* C2: on a Linear Transform with dispersion_delta # 0, evaluate(p) is
\* dispersion0 + dispersion_delta * (p - pixel_index) in the transform's unit,
\* and invert of that value returns p.
C2_LinearRoundTrip ==
    (IsLinear /\ wcs.dispersion_delta # R(0) /\ dispersion # NoCall) =>
        /\ dispersion.exc = "None"
        /\ dispersion.v.unit = wcs.unit
        /\ dispersion.v.v = RAdd(wcs.dispersion0,
                                 RMul(wcs.dispersion_delta, RSub(dispersion.p, wcs.pixel_index)))
        /\ RoundTrip => (pixel.exc = "None" /\ pixel.v = Num(dispersion.p))

\* A round trip through a Linear Transform whose reference pixel is not 0 and
\* whose step is not a whole number, at a pixel other than the reference.
C2_Witness ==
    /\ IsLinear /\ RoundTrip
    /\ wcs.dispersion_delta = Norm(3, 2)
    /\ wcs.pixel_index # R(0)
    /\ dispersion.p # wcs.pixel_index
    /\ pixel.v = Num(dispersion.p)

\* C3: on every Lookup Transform construction accepts (N >= 1 distinct values
\* in any order, linear interpolation) and every p with 0 <= p <= N-1,
\* invert(evaluate(p)) is p, never the undefined sentinel.
C3_LookupRoundTrip ==
    (/\ IsLookup /\ wcs.lookup_table_interpolation_kind = "linear"
     /\ RoundTrip
     /\ RGe(dispersion.p, R(0))
     /\ RGe(R(Len(wcs.lookup_table_parameter) - 1), dispersion.p)) =>
        /\ pixel.exc = "None"
        /\ ~IsNaN(pixel.v.v)
        /\ pixel.v = Num(dispersion.p)

HasDuplicate(values) == \E i, j \in 1..Len(values) : i # j /\ values[i] = values[j]

\* C8 as first stated: a Lookup Transform built from values with a duplicate
\* fails with Spectrum1DWCSError, whatever the unit and interpolation kind.
C8_DuplicateAlwaysWCSError ==
    (wcs_init.op = "Lookup" /\ HasDuplicate(wcs_init.lookup_table.value)) =>
        wcs_init.exc = "Spectrum1DWCSError"

\* C8, amended: values with a duplicate never yield a transform, whatever the
\* interpolation kind.  The failure is TypeError when neither the values nor
\* the unit argument give a unit, ValueError when the unit argument does not
\* parse or is no valid spectral unit, and Spectrum1DWCSError otherwise.
C8_DuplicateNeverAccepted ==
    (wcs_init.op = "Lookup" /\ HasDuplicate(wcs_init.lookup_table.value)) =>
        /\ wcs = NoWCS
        /\ wcs_init.exc =
             (IF wcs_init.unit.t = "None" /\ wcs_init.lookup_table.unit.t = "None"
              THEN "TypeError"
              ELSE IF wcs_init.unit.t # "None"
                      /\ (Unit(wcs_init.unit).exc # "None"
                          \/ ~check_valid_unit(Unit(wcs_init.unit).unit))
              THEN "ValueError"
              ELSE "Spectrum1DWCSError")

\* Duplicate values with a good unit and an interpolation kind that is not
\* implemented: rejected as non-bijective.
C8_Witness ==
    /\ wcs_init.op = "Lookup" /\ HasDuplicate(wcs_init.lookup_table.value)
    /\ wcs_init.kind = "cubic"
    /\ wcs_init.unit = Str("Hz")
    /\ wcs_init.exc = "Spectrum1DWCSError"

\* from_fits_header read, with no unit override, the header exactly as
\* to_fits_header wrote it for the same axis.
HeaderRoundTrip ==
    /\ IsLinear
    /\ restored # NoCall /\ restored.unit = None
    /\ fits_header = to_fits_header(wcs, EmptyHeader, restored.n)

\* C9: to_fits_header then from_fits_header gives back dispersion0,
\* dispersion_delta, the zero-based pixel_index and the unit; CRPIX is written
\* as pixel_index + 1 and read as CRPIX - 1, so evaluate(CRPIX - 1) is CRVAL.
C9_HeaderRoundTrip ==
    HeaderRoundTrip =>
        /\ restored.exc = "None"
        /\ restored.self.dispersion0 = wcs.dispersion0
        /\ restored.self.dispersion_delta = wcs.dispersion_delta
        /\ restored.self.pixel_index = wcs.pixel_index
        /\ restored.self.unit = wcs.unit
        /\ fits_header[<<"CRPIX", restored.n>>] = Num(RAdd(wcs.pixel_index, R(1)))
        /\ Spectrum1DLinearWCS__call__(
               restored.self, RSub(fits_header[<<"CRPIX", restored.n>>].v, R(1))).v
             = Q(fits_header[<<"CRVAL", restored.n>>].v, UnitOfName(fits_header[<<"CUNIT", restored.n>>].s))

\* A header round trip of a transform whose reference pixel is not 0 and whose
\* values were converted from kilometres at construction.
C9_Witness ==
    /\ HeaderRoundTrip
    /\ restored.exc = "None"
    /\ wcs.pixel_index # R(0)
    /\ wcs_init.dispersion0 = Q(R(2), u_km) /\ wcs.unit = u_m
    /\ restored.self = wcs

\* ------------------------------------------------ claims on the containers
\* The length of the container's spectral axis, and of its flux's last axis.
AxisLength(self) == get_spectral_axis(self).value.shape[1]
LastFluxAxis(self) == self.data.shape[Len(self.data.shape)]

\* C1: a container the constructor returns for a flux quantity, alone or with
\* a spectral axis, has a spectral axis as long as the last axis of its flux,
\* whatever the number of dimensions of the flux.
C1_AxisLengthIsLastFluxAxis ==
    (/\ ret.op = "__init__" /\ ret.exc = "None"
     /\ ret.a.flux.t = "Q" /\ ret.a.wcs = None) =>
        AxisLength(spectra[Len(spectra)]) = LastFluxAxis(spectra[Len(spectra)])

\* C4: once a setter has accepted an assignment to redshift or to
\* radial_velocity of a container built from a flux, reading its redshift
\* succeeds.
C4_RedshiftReadSucceeds ==
    (/\ ret.op = "redshift"
     /\ origin[ret.obj].src = 0
     /\ assigned[ret.obj]) => ret.exc = "None"

\* C7 as stated: a constructor call given both a redshift and a radial
\* velocity raises ValueError, copy-construction included.
C7_BothAlwaysValueError ==
    (/\ ret.op = "__init__"
     /\ ret.a.redshift # None
     /\ ret.a.radial_velocity # None) => ret.exc = "ValueError"

\* C7: a constructor call given both a redshift and a radial velocity raises
\* ValueError unless its flux argument is itself a container: copy-construction
\* returns before the test, and ignores both.
C7_BothValueErrorUnlessCopy ==
    (/\ ret.op = "__init__"
     /\ ret.a.redshift # None
     /\ ret.a.radial_velocity # None
     /\ ret.a.flux.t # "Spectrum1D") => ret.exc = "ValueError"

\* A flux of two spectra with a spectral axis of their length, both a redshift
\* and a velocity of the right unit, and nothing else to object to: ValueError.
C7_Witness ==
    /\ ret.op = "__init__"
    /\ ret.a.redshift # None
    /\ ret.a.radial_velocity = QV(R(1), u_km_s, <<>>)
    /\ ret.a.flux.t = "Q"
    /\ ret.a.spectral_axis.t = "Q"
    /\ ret.a.flux.value.shape = <<1, 2>>
    /\ ret.a.spectral_axis.value.shape = <<2>>
    /\ ~ret.a.kw_unknown
    /\ ret.exc = "ValueError"

\* numpy's broadcasting rule: the shapes, aligned at their last axes, agree or
\* hold a 1 wherever both have an axis.
Broadcastable(x, y) ==
    \A k \in 0..((IF Len(x) < Len(y) THEN Len(x) ELSE Len(y)) - 1) :
        x[Len(x) - k] = y[Len(y) - k] \/ x[Len(x) - k] = 1 \/ y[Len(y) - k] = 1

\* C10: the radial_velocity setter accepts a value other than None exactly
\* when its unit is a velocity and its shape broadcasts, by numpy's rule,
\* against the shape of the flux without its last axis.
C10_SetterAcceptsIffBroadcastable ==
    (ret.op = "set_radial_velocity" /\ ret.val # None) =>
        (ret.exc = "None" <=>
            /\ is_equivalent(ret.val.unit, u_km_s)
            /\ Broadcastable(ret.val.shape,
                             SubSeq(spectra[ret.obj].data.shape, 1,
                                    Len(spectra[ret.obj].data.shape) - 1)))

\* Two containers equal in every field, array by array and value by value.
SameFields(h, x, y) ==
    /\ Contents(h, x) = Contents(h, y)
    /\ x.data.shape = y.data.shape
    /\ x.unit = y.unit
    /\ get_spectral_axis(x).unit = get_spectral_axis(y).unit
    /\ x.velocity_convention = y.velocity_convention
    /\ x.rest_value = y.rest_value
    /\ x.radial_velocity = y.radial_velocity

\* C5: the container _copy() returns when given no overrides equals the one it
\* was called on in every field, the radial velocity included.
C5_CopyEqualsOriginal ==
    (ret.op = "_copy" /\ ret.exc = "None") =>
        SameFields(heap, spectra[ret.src], spectra[Len(spectra)])

\* Container o was derived by indexing or by _copy() from container q, whose
\* flux has more than one dimension.
DerivedFrom(o, q) ==
    /\ origin[o].src = q
    /\ origin[o].op \in {"__getitem__", "_copy"}
    /\ Len(spectra[q].data.shape) > 1

MadeBy(op, o, q) ==
    \/ origin[o].src = q /\ origin[o].op = op
    \/ origin[q].src = o /\ origin[q].op = op

GivenUnit(call) ==
    IF call.unit.t # "None"
    THEN (IF Unit(call.unit).exc = "None" THEN UnitObj(Unit(call.unit).unit) ELSE None)
    ELSE IF call.op = "Lookup" THEN call.lookup_table.unit
    ELSE IF call.dispersion0.t = "Q" THEN UnitObj(call.dispersion0.unit)
    ELSE None

\* C11: a call of either constructor whose unit, explicit or carried by the
\* values, is equivalent to none of pixel, velocity, length, frequency and
\* energy yields no transform and raises ValueError; and the unit of every
\* transform constructed is equivalent to one of them.
C11_InvalidUnitAlwaysRejected ==
    /\ (wcs_init # NoCall /\ GivenUnit(wcs_init) # None
        /\ ~check_valid_unit(GivenUnit(wcs_init).unit)) =>
            (wcs = NoWCS /\ wcs_init.exc \in {"ValueError", "UnitConversionError"})
    /\ wcs # NoWCS => check_valid_unit(wcs.unit)

\* No array has been written in place.
Untouched == \A b \in 1..Len(heap) : \A k \in 1..Len(heap[b]) : heap[b][k] # -1

\* The last call was s[item] on a container s whose flux has one dimension
\* and whose arrays are as constructed, item a whole number that indexes it.
ScalarIndexOf1D ==
    /\ ret.op = "__getitem__"
    /\ Untouched
    /\ ret.item.t = "int"
    /\ Len(spectra[ret.src].data.shape) = 1
    /\ ret.item.i >= -spectra[ret.src].data.shape[1]
    /\ ret.item.i <= spectra[ret.src].data.shape[1] - 1

\* The position, from 1, a valid Python index i has in an axis of length n.
Position(i, n) == IF i < 0 THEN i + n + 1 ELSE i + 1

\* C12: indexing a container whose flux has one dimension with a valid whole
\* number i, negative ones included, returns a container of length 1 that
\* holds flux[i] and the spectral-axis value at i.
C12_ScalarIndexSelectsOne ==
    ScalarIndexOf1D =>
        LET s == spectra[ret.src]
            t == spectra[Len(spectra)]
            k == Position(ret.item.i, s.data.shape[1])
        IN  /\ ret.exc = "None"
            /\ t.data.shape = <<1>>
            /\ Values(heap, t.data) = <<Values(heap, s.data)[k]>>
            /\ Values(heap, get_spectral_axis(t).value)
                 = <<Values(heap, get_spectral_axis(s).value)[k]>>


\* The last call was s[item] on a container s whose arrays are as constructed
\* and whose spectral axis is as long as the last axis of its flux, item
\* being an index numpy accepts for the flux.
IndexingOf ==
    /\ ret.op = "__getitem__"
    /\ Untouched
    /\ getitem(get_flux(spectra[ret.src]).value, ret.item).exc = "None"
    /\ AxisLength(spectra[ret.src]) = LastFluxAxis(spectra[ret.src])

\* Whether item reaches the last axis of an array of this shape.
SlicesLastAxis(item, shape) == Len(Items(item)) = Len(shape)

\* The values of the axis (of length n) that the last part of item selects.
SelectedRange(axis, item, n) ==
    LET rows == Rows(Items(item)[Len(Items(item))], n)
    IN  [k \in 1..Len(rows) |-> axis[rows[k] + 1]]

\* C13: every indexing of a container, of one or more dimensions, gives a new
\* container whose flux (and uncertainty, when there is one) is the original's
\* sliced by the item, whose spectral axis is shrunk to the selected range
\* when the item reaches the last axis and is the original's otherwise, and
\* whose spectral axis is as long as the last axis of its flux.
C13_IndexingSlicesFluxAndAxis ==
    IndexingOf =>
        LET s == spectra[ret.src]
            t == spectra[Len(spectra)]
            axis == Values(heap, get_spectral_axis(s).value)
        IN  /\ ret.exc = "None"
            /\ Values(heap, get_flux(t).value)
                 = Values(heap, getitem(get_flux(s).value, ret.item).array)
            /\ s.uncertainty # None =>
                 Values(heap, t.uncertainty)
                   = Values(heap, getitem(s.uncertainty, ret.item).array)
            /\ Values(heap, get_spectral_axis(t).value)
                 = IF SlicesLastAxis(ret.item, s.data.shape)
                   THEN SelectedRange(axis, ret.item, LastFluxAxis(s))
                   ELSE axis
            /\ t.data.shape # <<>>
            /\ AxisLength(t) = LastFluxAxis(t)

=============================================================================
